---- MODULE Spec2Model ----
(***************************************************************************)
(* Dependences.cpp: the dependence analysis of a Scop.                     *)
(*                                                                         *)
(* A Scop is modelled extensionally.  Statement instances are pairs        *)
(* <<statement, i>>, memory locations are the integer subscripts of one    *)
(* array, logical time is a vector of TimeDim integers.  An isl_union_map  *)
(* is the finite set of its pairs and the NULL pointer is the value NULL:  *)
(* every isl operation given NULL returns NULL, and an emptiness test on   *)
(* NULL returns -1, which the C++ code converts to the bool true.          *)
(***************************************************************************)
EXTENDS Integers, Sequences, FiniteSets

\* Number of iterations of every loop: the iteration domains are 0..N-1.
N == 3
\* Number of dimensions of the scattering (logical time) space.
TimeDim == 2

\* An isl object pointer: the NULL pointer, or a relation/set given by its elements.
NULL == [null |-> TRUE, v |-> {}]
Ptr(v) == [null |-> FALSE, v |-> v]

Stmts == {"S", "T"}
\* Position of a statement in the textual order of the Scop.
Ord(s) == IF s = "S" THEN 0 ELSE 1

Domain == 0 .. (N - 1)
\* The unconstrained iteration space an access relation or a scattering is
\* given on before it is intersected with a statement's domain.
IterSpace == -1 .. N

Subscripts == {"i", "i-1", "0"}
\* The array element an access with the given subscript touches at iteration i.
Element(sub, i) == IF sub = "i" THEN i ELSE IF sub = "i-1" THEN i - 1 ELSE 0

\* MemoryAccess::getAccessRelation of an access of statement s.
getAccessRelation(s, acc) ==
    { <<<<s, i>>, Element(acc.sub, i)>> : i \in IterSpace }
\* ScopStmt::getDomain.
getDomain(s) == { <<s, i>> : i \in Domain }
\* MemoryAccess::isRead.
isRead(acc) == acc.kind = "Read"

-----------------------------------------------------------------------------
\* Vectors of logical time and their lexicographic order.

Zeros(n) == [k \in 1 .. n |-> 0]
VecSub(a, b) == [k \in 1 .. Len(a) |-> a[k] - b[k]]

RECURSIVE LexLe(_, _)
\* a <=lex b for vectors of equal length.
LexLe(a, b) ==
    IF Len(a) = 0 THEN TRUE
    ELSE IF Head(a) < Head(b) THEN TRUE
    ELSE IF Head(a) > Head(b) THEN FALSE
    ELSE LexLe(Tail(a), Tail(b))

LexLt(a, b) == LexLe(a, b) /\ a # b

\* The scatterings a statement can be given.  Each is affine in i.
Scatterings == {"seq", "fused", "rev"}
Pad(v) == [k \in 1 .. TimeDim |-> IF k <= Len(v) THEN v[k] ELSE 0]
\* The time vector scattering sc assigns to instance i of statement s.
TimeOf(sc, s, i) ==
    IF sc = "seq" THEN Pad(<<Ord(s), i>>)
    ELSE IF sc = "fused" THEN Pad(<<i, Ord(s)>>)
    ELSE Pad(<<N - 1 - i, Ord(s)>>)
\* An isl_map from the instances of s to time.
ScatteringMap(sc, s) == { <<<<s, i>>, TimeOf(sc, s, i)>> : i \in IterSpace }

-----------------------------------------------------------------------------
\* The isl operations the analysis uses.  Each returns NULL when an argument
\* is NULL.

isl_union_map_empty == Ptr({})
isl_union_map_union(a, b) == IF a.null \/ b.null THEN NULL ELSE Ptr(a.v \cup b.v)
isl_union_map_add_map(u, m) == IF u.null THEN NULL ELSE Ptr(u.v \cup m)
isl_map_intersect_domain(m, dom) == { p \in m : p[1] \in dom }
\* Coalescing and equality detection change the representation of a relation,
\* never the set of its pairs.
isl_union_map_coalesce(a) == IF a.null THEN NULL ELSE Ptr({ p \in a.v : TRUE })
isl_union_map_detect_equalities(a) == IF a.null THEN NULL ELSE Ptr({ p \in a.v : TRUE })
\* { (y, b) : (a, b) in m, (a, y) in f }
isl_union_map_apply_domain(m, f) ==
    IF m.null \/ f.null THEN NULL
    ELSE Ptr({ <<q[2], p[2]>> : <<p, q>> \in { <<p, q>> \in m.v \X f.v : q[1] = p[1] } })
\* { (a, y) : (a, b) in m, (b, y) in f }
isl_union_map_apply_range(m, f) ==
    IF m.null \/ f.null THEN NULL
    ELSE Ptr({ <<p[1], q[2]>> : <<p, q>> \in { <<p, q>> \in m.v \X f.v : q[1] = p[2] } })
isl_union_map_intersect_domain(m, d) ==
    IF m.null \/ d.null THEN NULL ELSE Ptr({ p \in m.v : p[1] \in d.v })
isl_union_map_intersect_range(m, d) ==
    IF m.null \/ d.null THEN NULL ELSE Ptr({ p \in m.v : p[2] \in d.v })
\* The differences taken the wrong way round: { a - b : (a, b) in m }.
isl_union_map_deltas_reversed(m) ==
    IF m.null THEN NULL ELSE Ptr({ VecSub(p[1], p[2]) : p \in m.v })
\* { b - a : (a, b) in m }
isl_union_map_deltas(m) == IF m.null THEN NULL ELSE Ptr({ VecSub(p[2], p[1]) : p \in m.v })
\* The strict order in place of the non-strict one.
isl_set_lex_lt_set(A, B) ==
    IF A.null \/ B.null THEN NULL ELSE Ptr({ p \in A.v \X B.v : LexLt(p[1], p[2]) })
\* { (a, b) : a in A, b in B, a <=lex b }
isl_set_lex_le_set(A, B) ==
    IF A.null \/ B.null THEN NULL ELSE Ptr({ p \in A.v \X B.v : LexLe(p[1], p[2]) })
\* 1 when empty, 0 when not, -1 on NULL.
isl_is_empty(a) == IF a.null THEN -1 ELSE IF a.v = {} THEN 1 ELSE 0
\* The conversion of an int to a C++ bool.
ToBool(x) == x # 0

\* The time the schedule gives to a statement instance.
TimeAt(Schedule, x) == (CHOOSE p \in Schedule : p[1] = x)[2]
\* x is executed strictly before y.
Before(Schedule, x, y) == LexLt(TimeAt(Schedule, x), TimeAt(Schedule, y))

\* isl_union_map_compute_flow: for every sink access (instance k touching
\* element e) must_dep relates the last must-source instance that touches e
\* strictly before k to k, and may_dep relates to k every may-source instance
\* that touches e strictly before k and strictly after every must-source
\* instance that touches e before k.
isl_union_map_compute_flow(Sink, Must, May, Schedule) ==
    LET MustBefore(k, e) ==
            { p[1] : p \in { q \in Must.v : q[2] = e /\ Before(Schedule.v, q[1], k) } }
        Last(k, e) ==
            { m \in MustBefore(k, e) :
                \A m2 \in MustBefore(k, e) : ~Before(Schedule.v, m, m2) }
        MayAfter(k, e) ==
            { p[1] : p \in { q \in May.v :
                /\ q[2] = e
                /\ Before(Schedule.v, q[1], k)
                /\ \A m \in MustBefore(k, e) : Before(Schedule.v, m, q[1]) } }
    IN  [ must_dep |-> Ptr(UNION { { <<m, a[1]>> : m \in Last(a[1], a[2]) } : a \in Sink.v }),
          may_dep  |-> Ptr(UNION { { <<r, a[1]>> : r \in MayAfter(a[1], a[2]) } : a \in Sink.v }) ]

-----------------------------------------------------------------------------
VARIABLES
    scop,                   \* the analysed Scop: its statements and their accesses
    scat,                   \* the current scattering of every statement
    LegalityCheckDisabled,  \* the -disable-polly-legality option
    RAW, WAR, WAW,          \* the cached dependences
    phase,                  \* "constructed" until the first runOnScop, then "computed"
                            \* or "released"
    computedScat,           \* the scatterings the cache was computed under
    lastAll,                \* what getDependences(TYPE_ALL) last returned from this cache,
                            \* and whether another query was made since
    ret                     \* the query that has not returned yet: name, arguments, result

vars ==
    <<scop, scat, LegalityCheckDisabled, RAW, WAR, WAW, phase, computedScat, lastAll, ret>>

\* Dependences::collectInfo.
collectInfo(Sc, sc) ==
    LET accdom(x) == isl_map_intersect_domain(getAccessRelation(x[1], x[2]), getDomain(x[1]))
        All == UNION { { <<s, acc>> : acc \in Sc.acc[s] } : s \in Sc.stmts }
    IN  [ Read     |-> Ptr(UNION { accdom(x) : x \in { y \in All : isRead(y[2]) } }),
          Write    |-> Ptr(UNION { accdom(x) : x \in { y \in All : ~isRead(y[2]) } }),
          MayWrite |-> isl_union_map_empty,
          Schedule |-> Ptr(UNION { ScatteringMap(sc[s], s) : s \in Sc.stmts }) ]

\* calculateDependences with the writes handed over as may-sources of the reads.
calculateDependences_maySources(Sc, sc) ==
    LET I  == collectInfo(Sc, sc)
        F1 == isl_union_map_compute_flow(I.Read, I.MayWrite, I.Write, I.Schedule)
        F2 == isl_union_map_compute_flow(I.Write, I.Write, I.Read, I.Schedule)
    IN  [ RAW |-> isl_union_map_coalesce(F1.must_dep),
          WAW |-> isl_union_map_coalesce(F2.must_dep),
          WAR |-> isl_union_map_coalesce(F2.may_dep) ]

\* Dependences::calculateDependences.
calculateDependences(Sc, sc) ==
    LET I  == collectInfo(Sc, sc)
        F1 == isl_union_map_compute_flow(I.Read, I.Write, I.MayWrite, I.Schedule)
        F2 == isl_union_map_compute_flow(I.Write, I.Write, I.Read, I.Schedule)
    IN  [ RAW |-> isl_union_map_coalesce(F1.must_dep),
          WAW |-> isl_union_map_coalesce(F2.must_dep),
          WAR |-> isl_union_map_coalesce(F2.may_dep) ]

\* The kinds of dependences a caller can ask for.
TYPE_RAW == "RAW"
TYPE_WAR == "WAR"
TYPE_WAW == "WAW"
TYPE_ALL == {TYPE_RAW, TYPE_WAR, TYPE_WAW}

\* getDependences testing the wrong bit for the WAR dependences.
getDependences_wrongBit(Kinds) ==
    LET Space == IF RAW.null THEN NULL ELSE Ptr({})
        D0 == Space
        D1 == IF TYPE_RAW \in Kinds THEN isl_union_map_union(D0, RAW) ELSE D0
        D2 == IF TYPE_WAW \in Kinds THEN isl_union_map_union(D1, WAR) ELSE D1
        D3 == IF TYPE_WAW \in Kinds THEN isl_union_map_union(D2, WAW) ELSE D2
    IN  isl_union_map_detect_equalities(isl_union_map_coalesce(D3))

\* Dependences::getDependences.
getDependences(Kinds) ==
    LET Space == IF RAW.null THEN NULL ELSE Ptr({})
        D0 == Space
        D1 == IF TYPE_RAW \in Kinds THEN isl_union_map_union(D0, RAW) ELSE D0
        D2 == IF TYPE_WAR \in Kinds THEN isl_union_map_union(D1, WAR) ELSE D1
        D3 == IF TYPE_WAW \in Kinds THEN isl_union_map_union(D2, WAW) ELSE D2
    IN  isl_union_map_detect_equalities(isl_union_map_coalesce(D3))

\* The scattering isValidScattering uses for statement s.
StmtScat(NewScattering, s) ==
    IF s \notin DOMAIN NewScattering THEN ScatteringMap(scat[s], s)
    ELSE ScatteringMap(NewScattering[s], s)

\* Dependences::isValidScattering.
isValidScattering(NewScattering) ==
    IF LegalityCheckDisabled THEN TRUE
    ELSE
        LET Dependences == getDependences(TYPE_ALL)
            Scattering  == Ptr(UNION { StmtScat(NewScattering, s) : s \in scop.stmts })
            Dep1   == isl_union_map_apply_domain(Dependences, Scattering)
            Dep2   == isl_union_map_apply_range(Dep1, Scattering)
            Zero   == Ptr({ Zeros(TimeDim) })
            Deltas == isl_union_map_deltas(Dep2)
            NonPositive == isl_set_lex_le_set(Deltas, Zero)
        IN  ToBool(isl_is_empty(NonPositive))

\* getCombinedScheduleForSpace projecting out the first dimensions instead of
\* the last ones.
getCombinedScheduleForSpace_outer(dimLevel) ==
    Ptr({ <<p[1], SubSeq(p[2], TimeDim - dimLevel + 1, TimeDim)>> :
            p \in UNION { ScatteringMap(scat[s], s) : s \in scop.stmts } })

\* getCombinedScheduleForSpace: every scattering with the dimensions from
\* dimLevel on projected out.
getCombinedScheduleForSpace(dimLevel) ==
    Ptr({ <<p[1], SubSeq(p[2], 1, dimLevel)>> :
            p \in UNION { ScatteringMap(scat[s], s) : s \in scop.stmts } })

\* The coordinates a time vector of an executed instance can have, and the
\* coordinates the difference of two of them can have.
TimeCoords == 0 .. (N - 1)
DeltaCoords == (1 - N) .. (N - 1)
\* isl_set_universe on the space of n-dimensional distance vectors.
isl_set_universe(n) == Ptr([1 .. n -> DeltaCoords])
isl_set_fix_si(A, pos, val) == IF A.null THEN NULL ELSE Ptr({ d \in A.v : d[pos + 1] = val })
isl_set_subtract(A, B) == IF A.null \/ B.null THEN NULL ELSE Ptr(A.v \ B.v)
isl_set_complement(A, n) == IF A.null THEN NULL ELSE Ptr(isl_set_universe(n).v \ A.v)

RECURSIVE FixZeros(_, _, _)
\* for (i = from; i < to; i++) A = isl_set_fix_si(A, isl_dim_set, i, 0)
FixZeros(A, from, to) ==
    IF from >= to THEN A ELSE FixZeros(isl_set_fix_si(A, from, 0), from + 1, to)

\* isParallelDimension fixing the last dimension of LastUnknown too.
isParallelDimension_lastFixed(Dom, ParallelDim) ==
    LET Schedule == getCombinedScheduleForSpace(ParallelDim)
        Deps0 == getDependences(TYPE_ALL)
        ScheduleSubset == Dom
        Deps1 == isl_union_map_apply_range(Deps0, Schedule)
        Deps2 == isl_union_map_apply_domain(Deps1, Schedule)
        Deps3 == isl_union_map_intersect_domain(Deps2, ScheduleSubset)
        Deps4 == isl_union_map_intersect_range(Deps3, ScheduleSubset)
        Distance == isl_union_map_deltas(Deps4)
        Dimensions == ParallelDim
        AllZero == FixZeros(isl_set_universe(ParallelDim), 0, Dimensions)
        LastUnknown == FixZeros(isl_set_universe(ParallelDim), 0, Dimensions)
        ValidDistances ==
            isl_set_complement(isl_set_subtract(LastUnknown, AllZero), ParallelDim)
        Invalid == isl_set_subtract(Distance, ValidDistances)
    IN  ToBool(isl_is_empty(Invalid))

\* Dependences::isParallelDimension.  Dom is a set of time vectors of
\* ParallelDim dimensions.
isParallelDimension(Dom, ParallelDim) ==
    LET Schedule == getCombinedScheduleForSpace(ParallelDim)
        Deps0 == getDependences(TYPE_ALL)
        ScheduleSubset == Dom
        Deps1 == isl_union_map_apply_range(Deps0, Schedule)
        Deps2 == isl_union_map_apply_domain(Deps1, Schedule)
        Deps3 == isl_union_map_intersect_domain(Deps2, ScheduleSubset)
        Deps4 == isl_union_map_intersect_range(Deps3, ScheduleSubset)
        Distance == isl_union_map_deltas(Deps4)
        Dimensions == ParallelDim
        AllZero == FixZeros(isl_set_universe(ParallelDim), 0, Dimensions)
        LastUnknown == FixZeros(isl_set_universe(ParallelDim), 0, Dimensions - 1)
        ValidDistances ==
            isl_set_complement(isl_set_subtract(LastUnknown, AllZero), ParallelDim)
        Invalid == isl_set_subtract(Distance, ValidDistances)
    IN  ToBool(isl_is_empty(Invalid))

-----------------------------------------------------------------------------
\* The Scops analysed: one or two statements, each with at most one read
\* access and at most one write access of the array.

ReadChoices == { {} } \cup { { [kind |-> "Read", sub |-> x] } : x \in {"i-1", "0"} }
WriteChoices ==
    { {} } \cup { { [kind |-> "MustWrite", sub |-> x] } : x \in {"i", "0"} }
           \cup { { [kind |-> "MayWrite", sub |-> "0"] } }
AccessLists == { r \cup w : r \in ReadChoices, w \in WriteChoices } \ { {} }
Scops ==
    { [stmts |-> {"S"}, acc |-> [s \in Stmts |-> IF s = "S" THEN a ELSE {}]] :
        a \in AccessLists }
    \cup
    { [stmts |-> Stmts, acc |-> [s \in Stmts |-> IF s = "S" THEN a ELSE b]] :
        a \in AccessLists, b \in AccessLists }

\* A schedule orders the instances of a Scop totally: no two instances run at
\* the same time.
IsSchedule(Sc, sc) ==
    \A s1 \in Sc.stmts, s2 \in Sc.stmts : \A i1 \in Domain, i2 \in Domain :
        TimeOf(sc[s1], s1, i1) = TimeOf(sc[s2], s2, i2) => (s1 = s2 /\ i1 = i2)

\* The candidate scatterings isValidScattering is asked about: a new
\* scattering for some statements of the Scop.
Candidates == UNION { [D -> Scatterings] : D \in SUBSET scop.stmts }

\* The sets of time vectors isParallelDimension is asked about: the
\* n-dimensional times whose first coordinate lies in lo..hi.
TimeBox(n, lo, hi) == Ptr({ t \in [1 .. n -> TimeCoords] : lo <= t[1] /\ t[1] <= hi })
TimeBoxes(n) == { TimeBox(n, lo, hi) : lo \in {0, 1}, hi \in {N - 2, N - 1} }

NoCall ==
    [op |-> "none", Kinds |-> {}, NewScattering |-> <<>>, Dom |-> NULL,
     ParallelDim |-> 0, rel |-> NULL, verdict |-> FALSE]
NoResult == [called |-> FALSE, rel |-> NULL, between |-> FALSE]

\* Dependences::Dependences, on a Scop in its original schedule.
Init ==
    /\ scop \in Scops
    /\ \E sc \in {"seq", "fused"} : scat = [s \in Stmts |-> sc]
    /\ LegalityCheckDisabled \in BOOLEAN
    /\ RAW = NULL /\ WAR = NULL /\ WAW = NULL
    /\ phase = "constructed"
    /\ computedScat = scat
    /\ lastAll = NoResult
    /\ ret = NoCall

\* releaseMemory forgetting WAW.
releaseMemory_keepsWAW ==
    /\ ret = NoCall
    /\ RAW' = NULL /\ WAR' = NULL /\ WAW' = WAW
    /\ phase' = IF phase = "constructed" THEN "constructed" ELSE "released"
    /\ lastAll' = NoResult
    /\ UNCHANGED <<scop, scat, LegalityCheckDisabled, computedScat, ret>>

\* Dependences::releaseMemory.
releaseMemory ==
    /\ ret = NoCall
    /\ RAW' = NULL /\ WAR' = NULL /\ WAW' = NULL
    /\ phase' = IF phase = "constructed" THEN "constructed" ELSE "released"
    /\ lastAll' = NoResult
    /\ UNCHANGED <<scop, scat, LegalityCheckDisabled, computedScat, ret>>

\* Dependences::runOnScop: releaseMemory, then calculateDependences.
runOnScop ==
    LET D == calculateDependences(scop, scat)
    IN  /\ ret = NoCall
        /\ RAW' = D.RAW /\ WAR' = D.WAR /\ WAW' = D.WAW
        /\ phase' = "computed"
        /\ computedScat' = scat
        /\ lastAll' = NoResult
        /\ UNCHANGED <<scop, LegalityCheckDisabled, scat, ret>>

\* ScopStmt::setScattering on every statement of the Scop: a transformation
\* replaces the schedule.  The dependences are not told.
setScattering(sc) ==
    /\ ret = NoCall
    /\ [s \in Stmts |-> sc] # scat
    /\ IsSchedule(scop, [s \in Stmts |-> sc])
    /\ scat' = [s \in Stmts |-> sc]
    /\ UNCHANGED <<scop, LegalityCheckDisabled, RAW, WAR, WAW, phase, computedScat,
                   lastAll, ret>>

\* getDependences handing the cached relations to the union without copying
\* them: the union consumes them.
CallGetDependences_noCopy(Kinds) ==
    /\ ret = NoCall
    /\ ret' = [NoCall EXCEPT !.op = "getDependences", !.Kinds = Kinds,
                              !.rel = getDependences(Kinds)]
    /\ lastAll' = IF Kinds = TYPE_ALL
                  THEN [lastAll EXCEPT !.called = TRUE, !.rel = getDependences(Kinds)]
                  ELSE [lastAll EXCEPT !.between = lastAll.called]
    /\ RAW' = IF TYPE_RAW \in Kinds THEN NULL ELSE RAW
    /\ WAR' = IF TYPE_WAR \in Kinds THEN NULL ELSE WAR
    /\ WAW' = IF TYPE_WAW \in Kinds THEN NULL ELSE WAW
    /\ UNCHANGED <<scop, scat, LegalityCheckDisabled, phase, computedScat>>

\* A caller asks for the dependences of the given kinds.
CallGetDependences(Kinds) ==
    /\ ret = NoCall
    /\ ret' = [NoCall EXCEPT !.op = "getDependences", !.Kinds = Kinds,
                              !.rel = getDependences(Kinds)]
    /\ lastAll' = IF Kinds = TYPE_ALL
                  THEN [lastAll EXCEPT !.called = TRUE, !.rel = getDependences(Kinds)]
                  ELSE [lastAll EXCEPT !.between = lastAll.called]
    /\ UNCHANGED <<scop, scat, LegalityCheckDisabled, RAW, WAR, WAW, phase, computedScat>>

\* A caller asks whether a candidate scattering is valid.
CallIsValidScattering(NewScattering) ==
    /\ ret = NoCall
    /\ ret' = [NoCall EXCEPT !.op = "isValidScattering", !.NewScattering = NewScattering,
                              !.verdict = isValidScattering(NewScattering)]
    /\ lastAll' = [lastAll EXCEPT !.between = lastAll.called]
    /\ UNCHANGED <<scop, scat, LegalityCheckDisabled, RAW, WAR, WAW, phase, computedScat>>

\* A caller asks whether dimension ParallelDim is parallel on Dom.
CallIsParallelDimension(Dom, ParallelDim) ==
    /\ ret = NoCall
    /\ ret' = [NoCall EXCEPT !.op = "isParallelDimension", !.Dom = Dom,
                              !.ParallelDim = ParallelDim,
                              !.verdict = isParallelDimension(Dom, ParallelDim)]
    /\ lastAll' = [lastAll EXCEPT !.between = lastAll.called]
    /\ UNCHANGED <<scop, scat, LegalityCheckDisabled, RAW, WAR, WAW, phase, computedScat>>

\* The query returns: the caller has its result.  The pass is single-threaded,
\* so no other operation starts before.
Return ==
    /\ ret # NoCall
    /\ ret' = NoCall
    /\ UNCHANGED <<scop, scat, LegalityCheckDisabled, RAW, WAR, WAW, phase, computedScat,
                   lastAll>>

Next ==
    \/ releaseMemory
    \/ runOnScop
    \/ \E sc \in Scatterings : setScattering(sc)
    \/ \E Kinds \in SUBSET TYPE_ALL : CallGetDependences(Kinds)
    \/ \E NewScattering \in Candidates : CallIsValidScattering(NewScattering)
    \/ \E n \in 1 .. TimeDim : \E Dom \in TimeBoxes(n) : CallIsParallelDimension(Dom, n)
    \/ Return

Spec == Init /\ [][Next]_vars

-----------------------------------------------------------------------------
\* Notions the properties are stated with.

Instances == { <<s, i>> : s \in scop.stmts, i \in Domain }
\* Instance x executes an access of one of the given kinds to element e.
Touches(x, kinds, e) ==
    \E acc \in scop.acc[x[1]] : acc.kind \in kinds /\ Element(acc.sub, x[2]) = e
Elements == -1 .. (N - 1)
AnyWrite == {"MustWrite", "MayWrite"}
\* The time of an instance under the given scattering of every statement.
TimeUnder(sc, x) == TimeOf(sc[x[1]], x[1], x[2])
\* The scattering of every statement under a candidate.
Overridden(NewScattering) ==
    [s \in Stmts |-> IF s \in DOMAIN NewScattering THEN NewScattering[s] ELSE scat[s]]
\* The cached dependences of all kinds.
Cached == RAW.v \cup WAR.v \cup WAW.v
\* d is the zero vector, or its first nonzero coordinate is negative.
LexNonPositive(d) ==
    \/ \A k \in 1 .. Len(d) : d[k] = 0
    \/ \E k \in 1 .. Len(d) : d[k] < 0 /\ \A j \in 1 .. (k - 1) : d[j] = 0
\* The time deltas of the cached dependences under a candidate.
CandidateDeltas(NewScattering) ==
    { VecSub(TimeUnder(Overridden(NewScattering), p[2]),
             TimeUnder(Overridden(NewScattering), p[1])) : p \in Cached }
\* The first n coordinates of the current time of an instance.
Truncated(x, n) == SubSeq(TimeUnder(scat, x), 1, n)
\* The n-dimensional time deltas of the cached dependences that start and end
\* inside Dom.
DeltasInside(Dom, n) ==
    { VecSub(Truncated(p[2], n), Truncated(p[1], n)) :
        p \in { q \in Cached : Truncated(q[1], n) \in Dom.v /\ Truncated(q[2], n) \in Dom.v } }

\* C1: with the legality check enabled and the dependences computed,
\* isValidScattering returns true exactly when no cached dependence has, under
\* the candidate (missing statements keep their current scattering), a time
\* delta that is zero or whose first nonzero coordinate is negative.
C1_LegalIffNoNonPositiveDelta ==
    (ret.op = "isValidScattering" /\ ~LegalityCheckDisabled /\ phase = "computed")
        => (ret.verdict <=> ~\E d \in CandidateDeltas(ret.NewScattering) : LexNonPositive(d))

\* A candidate that overrides a statement is rejected because of a dependence.
C1_Witness ==
    /\ ret.op = "isValidScattering" /\ ~LegalityCheckDisabled /\ phase = "computed"
    /\ DOMAIN ret.NewScattering # {}
    /\ DOMAIN ret.NewScattering # scop.stmts
    /\ ~ret.verdict
    /\ \E d \in CandidateDeltas(ret.NewScattering) : ~LexNonPositive(d)

\* C2 as stated: isParallelDimension returns true exactly when every delta of
\* a dependence inside the domain is zero in every coordinate but the last.
C2_ParallelIffOuterZero ==
    (ret.op = "isParallelDimension" /\ phase = "computed")
        => (ret.verdict <=>
                \A d \in DeltasInside(ret.Dom, ret.ParallelDim) :
                    \A k \in 1 .. (ret.ParallelDim - 1) : d[k] = 0)

\* C2 amended: isParallelDimension returns true exactly when no delta of a
\* dependence inside the domain is zero in every outer coordinate and nonzero
\* in the last one; zero deltas and deltas with a nonzero outer coordinate do
\* not prevent it.
C2_ParallelIffNotCarried ==
    (ret.op = "isParallelDimension" /\ phase = "computed")
        => (ret.verdict <=>
                ~\E d \in DeltasInside(ret.Dom, ret.ParallelDim) :
                    /\ \A k \in 1 .. (ret.ParallelDim - 1) : d[k] = 0
                    /\ d[ret.ParallelDim] # 0)

\* A dimension is found parallel although a dependence inside the domain has a
\* nonzero outer coordinate.
C2_Witness ==
    /\ ret.op = "isParallelDimension" /\ phase = "computed"
    /\ ret.verdict
    /\ \E d \in DeltasInside(ret.Dom, ret.ParallelDim) :
          \E k \in 1 .. (ret.ParallelDim - 1) : d[k] # 0

\* w is a write of e that precedes r and no write of e that precedes r is later.
LastWriteBefore(w, r, e) ==
    /\ Touches(w, AnyWrite, e)
    /\ LexLt(TimeUnder(computedScat, w), TimeUnder(computedScat, r))
    /\ \A w2 \in Instances :
          (Touches(w2, AnyWrite, e)
             /\ LexLt(TimeUnder(computedScat, w2), TimeUnder(computedScat, r)))
            => LexLe(TimeUnder(computedScat, w2), TimeUnder(computedScat, w))

KeepsSchedule(NewScattering) == \A s \in DOMAIN NewScattering : NewScattering[s] = scat[s]

\* C4: when the dependences were computed under the current schedule,
\* isValidScattering returns true for the empty candidate and for a candidate
\* that repeats the current scatterings.
C4_CurrentScheduleIsLegal ==
    ( /\ ret.op = "isValidScattering" /\ phase = "computed" /\ computedScat = scat
      /\ KeepsSchedule(ret.NewScattering) ) => ret.verdict

\* The current schedule is validated against dependences that exist.
C4_Witness ==
    /\ ret.op = "isValidScattering" /\ phase = "computed" /\ computedScat = scat
    /\ ~LegalityCheckDisabled
    /\ ret.NewScattering = <<>>
    /\ RAW.v # {} /\ WAW.v # {}
    /\ ret.verdict

\* The statement S[i], i in 0..N-1, that reads A[i-1] and writes A[i].
Recurrence ==
    [stmts |-> {"S"},
     acc |-> [s \in Stmts |->
                IF s = "S" THEN { [kind |-> "Read", sub |-> "i-1"],
                                  [kind |-> "MustWrite", sub |-> "i"] }
                ELSE {}]]
\* The scattering of S is the identity in its first dimension.
IdentitySchedule == scat["S"] = "fused" /\ computedScat = scat

\* C5: for the recurrence under the identity schedule RAW relates the write
\* instance i-1 to the read instance i for every i in 1..N-1, and
\* isParallelDimension at depth 1 on the whole domain returns false.
C5_RecurrenceIsNotParallel ==
    (scop = Recurrence /\ phase = "computed" /\ IdentitySchedule) =>
        /\ RAW.v = { <<<<"S", i - 1>>, <<"S", i>>>> : i \in 1 .. (N - 1) }
        /\ (ret.op = "isParallelDimension" /\ ret.ParallelDim = 1
               /\ ret.Dom = TimeBox(1, 0, N - 1)) => ~ret.verdict

C5_Witness ==
    /\ scop = Recurrence /\ phase = "computed" /\ IdentitySchedule
    /\ ret.op = "isParallelDimension" /\ ret.ParallelDim = 1
    /\ ret.Dom = TimeBox(1, 0, N - 1)
    /\ ~ret.verdict

\* C6: a query leaves RAW, WAR and WAW as they are, and getDependences(TYPE_ALL)
\* returns the same relation as the last time it was called on this cache,
\* whatever queries were made in between.
C6_QueriesKeepCache ==
    [][ /\ (ret'.op # "none" \/ ret.op # "none") => UNCHANGED <<RAW, WAR, WAW>>
        /\ (lastAll.called /\ ret'.op = "getDependences" /\ ret'.Kinds = TYPE_ALL
               /\ ret.op = "none")
             => ret'.rel = lastAll.rel ]_vars

\* getDependences(TYPE_ALL) is called again after another query and returns
\* dependences.
C6_Witness ==
    /\ ret.op = "getDependences" /\ ret.Kinds = TYPE_ALL
    /\ lastAll.called /\ lastAll.between
    /\ ~ret.rel.null /\ ret.rel.v # {}

\* C7: between operations the cache holds RAW, WAR and WAW or none of them:
\* all three after runOnScop, none after construction and after releaseMemory.
C7_AllOrNone ==
    /\ (RAW.null <=> WAR.null) /\ (WAR.null <=> WAW.null)
    /\ (phase = "computed") <=> ~RAW.null

\* The cache was computed under a new schedule and then released.
C7_Witness ==
    /\ phase = "released" /\ computedScat["S"] = "rev"
    /\ RAW = NULL /\ WAR = NULL /\ WAW = NULL

\* C8: a query made after releaseMemory and before the next runOnScop either
\* recomputes the dependences or reports a failure; it returns no verdict.
C8_StaleQueryFails ==
    ( /\ phase = "released" /\ ret.op # "none"
      /\ ~(ret.op = "isValidScattering" /\ LegalityCheckDisabled) )
        => (~RAW.null \/ (ret.op = "getDependences" /\ ret.rel = NULL))

\* C9: on a computed cache getDependences returns exactly the pairs of the
\* cached relations whose kind was asked for, and the empty relation when no
\* kind was asked for.
C9_UnionOfRequestedKinds ==
    (ret.op = "getDependences" /\ phase = "computed") =>
        /\ ~ret.rel.null
        /\ \A p \in Cached \cup ret.rel.v :
              p \in ret.rel.v <=>
                  \/ (TYPE_RAW \in ret.Kinds /\ p \in RAW.v)
                  \/ (TYPE_WAR \in ret.Kinds /\ p \in WAR.v)
                  \/ (TYPE_WAW \in ret.Kinds /\ p \in WAW.v)
        /\ ret.Kinds = {} => ret.rel.v = {}

\* One kind is asked for and a pair of another kind is left out.
C9_Witness ==
    /\ ret.op = "getDependences" /\ phase = "computed"
    /\ ret.Kinds = {TYPE_WAR}
    /\ ret.rel.v # {}
    /\ (RAW.v \cup WAW.v) \ ret.rel.v # {}

\* C10: the Write relation collected holds exactly the MustWrite accesses and
\* the MayWrite relation exactly the MayWrite accesses, so that a read stays
\* paired in RAW with the last must-write of its element when a may-write of
\* that element lies between the two.
C10_MayWritesKeptApart ==
    phase = "computed" =>
        LET I == collectInfo(scop, computedScat)
            Of(kind) == { <<x, e>> \in Instances \X Elements : Touches(x, {kind}, e) }
            LastMust(w, r, e) ==
                /\ Touches(w, {"MustWrite"}, e)
                /\ LexLt(TimeUnder(computedScat, w), TimeUnder(computedScat, r))
                /\ \A w2 \in Instances :
                      (Touches(w2, {"MustWrite"}, e)
                         /\ LexLt(TimeUnder(computedScat, w2), TimeUnder(computedScat, r)))
                        => LexLe(TimeUnder(computedScat, w2), TimeUnder(computedScat, w))
        IN  /\ I.Write.v = Of("MustWrite")
            /\ I.MayWrite.v = Of("MayWrite")
            /\ \A w \in Instances, r \in Instances, e \in Elements :
                  (Touches(r, {"Read"}, e) /\ LastMust(w, r, e)) => <<w, r>> \in RAW.v

=============================================================================
